---- MODULE Spec2Model ----
(***************************************************************************)
(* Model of backend/app/main.py of the Vinous API: the response normalizer *)
(* (extract_json_from_response), the label-scan handler, the rating and    *)
(* price aggregators with their mock sources and fallback estimators.      *)
(*                                                                         *)
(* A Python str is a sequence of one-character strings; a literal of the   *)
(* code is written as a one-element sequence holding the literal.          *)
(***************************************************************************)
EXTENDS Integers, Sequences, FiniteSets, TLC

(***************************************************************************)
(* Bounds of the model.                                                    *)
(***************************************************************************)
\* a model reply is a concatenation of at most MaxChunks chunks
MaxChunks == 4
\* a random.uniform band is sampled at JitterSteps + 1 evenly spaced points
JitterSteps == 1

(***************************************************************************)
(* JSON values, as json.loads builds them.                                 *)
(*   t = "obj"   kids = the dict's items, in insertion order               *)
(*   t = "list"  kids = the elements                                       *)
(*   t = "str"   s    = the characters                                     *)
(*   t = "int"   n    = the integer                                        *)
(*   t = "float" n    = the value in tenths                                *)
(***************************************************************************)
JObj(kids) == [t |-> "obj", n |-> 0, s |-> <<>>, kids |-> kids]
JList(kids) == [t |-> "list", n |-> 0, s |-> <<>>, kids |-> kids]
JStr(s) == [t |-> "str", n |-> 0, s |-> s, kids |-> <<>>]
JInt(n) == [t |-> "int", n |-> n, s |-> <<>>, kids |-> <<>>]
JFloat(tenths) == [t |-> "float", n |-> tenths, s |-> <<>>, kids |-> <<>>]

Item(k, v) == [k |-> k, v |-> v]

\* dict[k] = v: an existing key keeps its position and takes the new value
DictSet(kids, k, v) ==
    IF \E i \in 1..Len(kids) : kids[i].k = k
    THEN [i \in 1..Len(kids) |-> IF kids[i].k = k THEN Item(k, v) ELSE kids[i]]
    ELSE Append(kids, Item(k, v))

Whitespace == {" ", "\n", "\t", "\r"}
Digits == {"0", "1", "2", "3", "4", "5", "6", "7", "8", "9"}
DigitValue(c) ==
    CASE c = "0" -> 0 [] c = "1" -> 1 [] c = "2" -> 2 [] c = "3" -> 3
      [] c = "4" -> 4 [] c = "5" -> 5 [] c = "6" -> 6 [] c = "7" -> 7
      [] c = "8" -> 8 [] c = "9" -> 9

ParseFail == [ok |-> FALSE, v |-> JInt(0), next |-> 0]
ParseOk(v, next) == [ok |-> TRUE, v |-> v, next |-> next]

\* the first index >= i of s that is not whitespace (Len(s) + 1 if none)
RECURSIVE SkipWs(_, _)
SkipWs(s, i) ==
    IF i <= Len(s) /\ s[i] \in Whitespace THEN SkipWs(s, i + 1) ELSE i

\* the index of the first c at or after i, 0 if there is none
RECURSIVE IndexFrom(_, _, _)
IndexFrom(s, c, i) ==
    IF i > Len(s) THEN 0
    ELSE IF s[i] = c THEN i ELSE IndexFrom(s, c, i + 1)

\* s[i] is the opening quote; the string ends at the next quote (the texts
\* of the model hold no backslash and no control character)
ParseString(s, i) ==
    LET j == IndexFrom(s, "\"", i + 1)
    IN  IF j = 0 THEN ParseFail
        ELSE ParseOk(JStr(SubSeq(s, i + 1, j - 1)), j + 1)

\* s[i] is a digit: the integer literal 0 | [1-9][0-9]* (the texts of the
\* model hold no sign, fraction or exponent)
RECURSIVE DigitRun(_, _, _)
DigitRun(s, i, acc) ==
    IF i <= Len(s) /\ s[i] \in Digits
    THEN DigitRun(s, i + 1, acc * 10 + DigitValue(s[i]))
    ELSE ParseOk(JInt(acc), i)

ParseNumber(s, i) ==
    IF s[i] = "0" THEN ParseOk(JInt(0), i + 1) ELSE DigitRun(s, i, 0)

RECURSIVE ParseValue(_, _)
RECURSIVE ParseMembers(_, _, _)

\* j is the index where a member's key must start
ParseMembers(s, j, acc) ==
    IF j > Len(s) \/ s[j] # "\"" THEN ParseFail
    ELSE
      LET key == ParseString(s, j)
      IN  IF ~key.ok THEN ParseFail
          ELSE
            LET c == SkipWs(s, key.next)
            IN  IF c > Len(s) \/ s[c] # ":" THEN ParseFail
                ELSE
                  LET val == ParseValue(s, SkipWs(s, c + 1))
                  IN  IF ~val.ok THEN ParseFail
                      ELSE
                        LET e == SkipWs(s, val.next)
                            items == DictSet(acc, key.v.s, val.v)
                        IN  IF e > Len(s) THEN ParseFail
                            ELSE IF s[e] = "}" THEN ParseOk(JObj(items), e + 1)
                            ELSE IF s[e] = ","
                                 THEN ParseMembers(s, SkipWs(s, e + 1), items)
                            ELSE ParseFail

\* s[i] is the opening brace
ParseObject(s, i) ==
    LET j == SkipWs(s, i + 1)
    IN  IF j <= Len(s) /\ s[j] = "}" THEN ParseOk(JObj(<<>>), j + 1)
        ELSE ParseMembers(s, j, <<>>)

\* j is the index where an element must start
RECURSIVE ParseElements(_, _, _)
ParseElements(s, j, acc) ==
    LET val == ParseValue(s, j)
    IN  IF ~val.ok THEN ParseFail
        ELSE
          LET e == SkipWs(s, val.next)
              items == Append(acc, val.v)
          IN  IF e > Len(s) THEN ParseFail
              ELSE IF s[e] = "]"
                   THEN ParseOk(JList(items), e + 1)
              ELSE IF s[e] = "," THEN ParseElements(s, SkipWs(s, e + 1), items)
              ELSE ParseFail

\* s[i] is the opening bracket
ParseArray(s, i) ==
    LET j == SkipWs(s, i + 1)
    IN  IF j <= Len(s) /\ s[j] = "]" THEN ParseOk(JList(<<>>), j + 1)
        ELSE ParseElements(s, j, <<>>)

\* the JSON scanner's dispatch on the first character of a value
ParseValue(s, i) ==
    IF i > Len(s) THEN ParseFail
    ELSE IF s[i] = "\"" THEN ParseString(s, i)
    ELSE IF s[i] = "{" THEN ParseObject(s, i)
    ELSE IF s[i] = "[" THEN ParseArray(s, i)
    ELSE IF s[i] \in Digits THEN ParseNumber(s, i)
    ELSE ParseFail

\* json.loads(s): one value between optional whitespace, nothing after it;
\* ok = FALSE stands for json.JSONDecodeError
JsonLoads(s) ==
    LET r == ParseValue(s, SkipWs(s, 1))
    IN  IF r.ok /\ SkipWs(s, r.next) = Len(s) + 1 THEN r ELSE ParseFail

(***************************************************************************)
(* The two regular expressions of extract_json_from_response (re.search,   *)
(* re.DOTALL): the leftmost match, found in the engine's backtracking      *)
(* order.                                                                  *)
(***************************************************************************)
\* the backtick character U+0060 (a TLA+ string literal cannot hold it)
Tick == "<tick>"

NoMatch == [found |-> FALSE, group |-> <<>>]
Match(s, from, to) == [found |-> TRUE, group |-> SubSeq(s, from, to)]

JsonTag == <<"j", "s", "o", "n">>

\* the tail .*?\}\s*<tick> of the first pattern, from index q: the lazy
\* quantifier stops at the first closing brace that optional whitespace and
\* a backtick follow; 0 if there is none
RECURSIVE LazyClose(_, _)
LazyClose(s, q) ==
    IF q > Len(s) THEN 0
    ELSE IF s[q] = "}" /\ SkipWs(s, q + 1) <= Len(s) /\ s[SkipWs(s, q + 1)] = Tick
         THEN q
         ELSE LazyClose(s, q + 1)

\* \s*(\{.*?\})\s*<tick> from index p0. \s* is greedy; giving whitespace
\* back never helps, because the next item must be a brace or a backtick
GroupFrom(s, p0) ==
    LET p == SkipWs(s, p0)
    IN  IF p > Len(s) \/ s[p] # "{" THEN NoMatch
        ELSE LET q == LazyClose(s, p + 1)
             IN  IF q = 0 THEN NoMatch ELSE Match(s, p, q)

\* <tick>(?:json)?\s*(\{.*?\})\s*<tick> anchored at index i: the optional
\* tag is tried first, then skipped
FenceMatchAt(s, i) ==
    IF s[i] # Tick THEN NoMatch
    ELSE LET tagged == IF i + 4 <= Len(s) /\ SubSeq(s, i + 1, i + 4) = JsonTag
                       THEN GroupFrom(s, i + 5) ELSE NoMatch
         IN  IF tagged.found THEN tagged ELSE GroupFrom(s, i + 1)

RECURSIVE FenceSearchFrom(_, _)
FenceSearchFrom(s, i) ==
    IF i > Len(s) THEN NoMatch
    ELSE LET m == FenceMatchAt(s, i)
         IN  IF m.found THEN m ELSE FenceSearchFrom(s, i + 1)

\* re.search of <tick>(?:json)?\s*(\{.*?\})\s*<tick> with re.DOTALL, group(1)
FenceSearch(s) == FenceSearchFrom(s, 1)

\* the index of the last c of s, 0 if there is none
RECURSIVE LastIndex(_, _, _)
LastIndex(s, c, i) ==
    IF i < 1 THEN 0
    ELSE IF s[i] = c THEN i ELSE LastIndex(s, c, i - 1)

\* re.search of \{.*\} with re.DOTALL, group(0): greedy, from the first
\* opening brace to the last closing brace after it
BraceSearch(s) ==
    LET first == IndexFrom(s, "{", 1)
        last == LastIndex(s, "}", Len(s))
    IN  IF first # 0 /\ last > first THEN Match(s, first, last) ELSE NoMatch

(***************************************************************************)
(* extract_json_from_response                                              *)
(***************************************************************************)
Lit(word) == <<word>>

\* the default record losing the raw text of the reply
DefaultRecord_NoDescription(text) ==
    JObj(<< Item(Lit("name"), JStr(Lit("Unknown Wine"))),
            Item(Lit("winery"), JStr(Lit("Unknown Winery"))),
            Item(Lit("vintage"), JStr(Lit("Unknown"))),
            Item(Lit("region"), JStr(Lit("Unknown"))),
            Item(Lit("country"), JStr(Lit("Unknown"))),
            Item(Lit("grape_variety"), JStr(Lit("Unknown"))),
            Item(Lit("alcohol_content"), JStr(Lit("Unknown"))),
            Item(Lit("wine_type"), JStr(Lit("red"))),
            Item(Lit("description"), JStr(Lit("Unknown"))),
            Item(Lit("confidence"), JFloat(5)) >>)

DefaultRecord(text) ==
    JObj(<< Item(Lit("name"), JStr(Lit("Unknown Wine"))),
            Item(Lit("winery"), JStr(Lit("Unknown Winery"))),
            Item(Lit("vintage"), JStr(Lit("Unknown"))),
            Item(Lit("region"), JStr(Lit("Unknown"))),
            Item(Lit("country"), JStr(Lit("Unknown"))),
            Item(Lit("grape_variety"), JStr(Lit("Unknown"))),
            Item(Lit("alcohol_content"), JStr(Lit("Unknown"))),
            Item(Lit("wine_type"), JStr(Lit("red"))),
            Item(Lit("description"), JStr(text)),
            Item(Lit("confidence"), JFloat(5)) >>)

\* the inner try block: the first regular expression that matches decides;
\* a JSONDecodeError of either json.loads leaves the block
extract_inner(text) ==
    LET fenced == FenceSearch(text)
        braces == BraceSearch(text)
    IN  IF fenced.found THEN JsonLoads(fenced.group)
        ELSE IF braces.found THEN JsonLoads(braces.group)
        ELSE ParseFail

extract_json_from_response(text) ==
    LET direct == JsonLoads(text)
        inner == extract_inner(text)
    IN  IF direct.ok THEN direct.v
        ELSE IF inner.ok THEN inner.v
        ELSE DefaultRecord(text)

(***************************************************************************)
(* The replies of the vision model: concatenations of chunks.              *)
(***************************************************************************)
Fence == <<Tick, Tick, Tick>>
ObjectChunk == <<"{", "\"", "a", "\"", ":", "1", "}">>
OpenChunk == <<"{", "\"", "a", "\"", ":", "\"">>
CloseChunk == <<"\"", "}">>
CodeSpan == <<Tick, "{", "x", "}", Tick>>
ListChunk == <<"[", "1", "]">>
Chunks == {Fence, JsonTag, ObjectChunk, OpenChunk, CloseChunk, CodeSpan,
           ListChunk, <<"x">>, <<" ">>}

RECURSIVE Flatten(_)
Flatten(parts) ==
    IF parts = <<>> THEN <<>> ELSE Head(parts) \o Flatten(Tail(parts))

Texts == UNION {{Flatten(parts) : parts \in [1..n -> Chunks]} : n \in 0..MaxChunks}

(***************************************************************************)
(* Python values of the request handlers.                                  *)
(*   NoneStr  is None where the code holds Optional[str]                   *)
(*   NoneDict is None where the code holds Optional[Dict]                  *)
(* Ratings are held in tenths of a point and prices in cents, so that the  *)
(* floats of the code are integers here.                                   *)
(***************************************************************************)
NoneStr == <<"<None>">>
NoneDict == [none |-> TRUE]

\* bool(x) of an Optional[str]
Truthy(x) == x # NoneStr /\ x # <<>>

LowerChar(c) ==
    CASE c = "A" -> "a" [] c = "B" -> "b" [] c = "C" -> "c" [] c = "D" -> "d"
      [] c = "E" -> "e" [] c = "F" -> "f" [] c = "G" -> "g" [] c = "H" -> "h"
      [] c = "I" -> "i" [] c = "J" -> "j" [] c = "K" -> "k" [] c = "L" -> "l"
      [] c = "M" -> "m" [] c = "N" -> "n" [] c = "O" -> "o" [] c = "P" -> "p"
      [] c = "Q" -> "q" [] c = "R" -> "r" [] c = "S" -> "s" [] c = "T" -> "t"
      [] c = "U" -> "u" [] c = "V" -> "v" [] c = "W" -> "w" [] c = "X" -> "x"
      [] c = "Y" -> "y" [] c = "Z" -> "z" [] OTHER -> c

\* s.lower()
Lower(s) == [i \in 1..Len(s) |-> LowerChar(s[i])]

\* needle in hay
Contains(hay, needle) ==
    \E i \in 1..(Len(hay) - Len(needle) + 1) :
        SubSeq(hay, i, i + Len(needle) - 1) = needle

\* s.startswith(prefix)
StartsWith(s, prefix) ==
    Len(s) >= Len(prefix) /\ SubSeq(s, 1, Len(prefix)) = prefix

\* s.replace(old, new) for a one-character old; new is a str
RECURSIVE Replace(_, _, _)
Replace(s, old, new) ==
    IF s = <<>> THEN <<>>
    ELSE (IF Head(s) = old THEN new ELSE <<Head(s)>>) \o Replace(Tail(s), old, new)

\* the character U+00B2 (superscript two): str.isdigit() accepts it, int()
\* does not
Sup2 == "<sup2>"

\* s.isdigit()
IsDigit(s) == s # <<>> /\ \A i \in 1..Len(s) : s[i] \in Digits \cup {Sup2}

\* int(s): ok = FALSE stands for ValueError (the strings of the model hold
\* no sign, underscore or surrounding whitespace)
IntOf(s) ==
    IF s # <<>> /\ \A i \in 1..Len(s) : s[i] \in Digits
    THEN [ok |-> TRUE, n |-> DigitRun(s, 1, 0).v.n]
    ELSE [ok |-> FALSE, n |-> 0]

\* d.get(key, default) on the dict of a request
DictGet(d, key, default) == IF key \in DOMAIN d THEN d[key] ELSE default

\* round(num / den, ...) to the nearest integer of the model's unit. The
\* code rounds a binary float: on an exact decimal tie the float lies on
\* either side, so both neighbours are possible
RoundDiv(num, den) ==
    LET q == num \div den
        r == num % den
    IN  IF 2 * r < den THEN {q}
        ELSE IF 2 * r > den THEN {q + 1}
        ELSE {q, q + 1}

\* the sample points of random.uniform(lo, hi), in thousandths
UniformBand(lo, hi) ==
    {lo + (k * (hi - lo)) \div JitterSteps : k \in 0..JitterSteps}

(***************************************************************************)
(* String literals of the code.                                            *)
(***************************************************************************)
VivinoPremium ==
    {<<"d", "o", "m", " ", "p", "e", "r", "i", "g", "n", "o", "n">>,
     <<"o", "p", "u", "s", " ", "o", "n", "e">>,
     <<"s", "c", "r", "e", "a", "m", "i", "n", "g", " ", "e", "a", "g", "l", "e">>}
SpectatorPremium ==
    {<<"c", "a", "y", "m", "u", "s">>,
     <<"s", "i", "l", "v", "e", "r", " ", "o", "a", "k">>,
     <<"o", "p", "u", "s", " ", "o", "n", "e">>}
PremiumPriceRegions ==
    {<<"n", "a", "p", "a">>,
     <<"b", "o", "r", "d", "e", "a", "u", "x">>,
     <<"b", "u", "r", "g", "u", "n", "d", "y">>,
     <<"c", "h", "a", "m", "p", "a", "g", "n", "e">>}
MidPriceRegions ==
    {<<"c", "h", "i", "a", "n", "t", "i">>,
     <<"r", "i", "o", "j", "a">>,
     <<"r", "h", "o", "n", "e">>}
prestigious_regions ==
    {<<"b", "o", "r", "d", "e", "a", "u", "x">>,
     <<"b", "u", "r", "g", "u", "n", "d", "y">>,
     <<"n", "a", "p", "a", " ", "v", "a", "l", "l", "e", "y">>,
     <<"c", "h", "i", "a", "n", "t", "i", " ", "c", "l", "a", "s", "s", "i", "c", "o">>,
     <<"b", "a", "r", "o", "l", "o">>,
     <<"r", "i", "o", "j", "a">>}
premium_grapes ==
    {<<"c", "a", "b", "e", "r", "n", "e", "t", " ", "s", "a", "u", "v", "i", "g", "n", "o", "n">>,
     <<"p", "i", "n", "o", "t", " ", "n", "o", "i", "r">>,
     <<"c", "h", "a", "r", "d", "o", "n", "n", "a", "y">>,
     <<"s", "a", "n", "g", "i", "o", "v", "e", "s", "e">>}
ImagePrefix == <<"i", "m", "a", "g", "e", "/">>

(***************************************************************************)
(* The requests of the model.                                              *)
(***************************************************************************)
WineNames == {<<"O", "p", "u", "s", " ", "O", "n", "e">>}
Wineries == {NoneStr, <<"O", "p", "u", "s", " ", "O", "n", "e">>, <<"A", "c", "m", "e">>}
Vintages == {NoneStr, <<>>, <<"2", "0", "1", "0">>, <<"2", "0", "2", "0">>, <<"a", "b", "c">>, <<Sup2>>}
Regions == {NoneStr, <<"B", "o", "r", "d", "e", "a", "u", "x">>, <<"R", "i", "o", "j", "a">>, <<"T", "u", "s", "c", "a", "n", "y">>}
\* no handler reads the country
Countries == {NoneStr}
ContentTypes == {NoneStr, <<>>, <<"t", "e", "x", "t", "/", "p", "l", "a", "i", "n">>, <<"i", "m", "a", "g", "e", "/", "p", "n", "g">>}

Requests ==
    [wine_name : WineNames, winery : Wineries, vintage : Vintages,
     region : Regions, country : Countries]

(***************************************************************************)
(* The mock rating sources.                                                *)
(***************************************************************************)
\* datetime.now().year
CurrentYear == 2026

\* round(min(base_rating + random.uniform(-0.3, 0.4), 5.0), 1) - base_rating,
\* in tenths
VivinoJitter == -3..4
\* random.randint(50, 500), at its two ends
ReviewCounts == {50, 500}
\* random.randint(-5, 8)
SpectatorJitter == -5..8

MinOf(a, b) == IF a <= b THEN a ELSE b
MaxOf(a, b) == IF a >= b THEN a ELSE b

\* the body of a lookup raises ValueError at int(vintage); its own
\* except clause turns that into None
VintageRaises(vintage) == Truthy(vintage) /\ ~IntOf(vintage).ok

IsOlderThan(vintage, year) == Truthy(vintage) /\ IntOf(vintage).n < year

SearchUrl(site, wine_name) == Lit(site) \o Replace(wine_name, " ", <<"-">>)

search_vivino_rating(wine_name, vintage, winery, jitter, reviews) ==
    IF VintageRaises(vintage) THEN NoneDict
    ELSE
      LET base_rating ==
              38 + (IF IsOlderThan(vintage, 2015) THEN 2 ELSE 0)
                 + (IF Truthy(winery)
                       /\ \E premium \in VivinoPremium : Contains(Lower(winery), premium)
                    THEN 5 ELSE 0)
      IN  [rating |-> MinOf(base_rating + jitter, 50),
           max_rating |-> 50,
           source |-> Lit("Vivino"),
           review_count |-> reviews,
           url |-> SearchUrl("https://vivino.com/search/", wine_name)]

search_wine_spectator_rating(wine_name, vintage, winery, jitter) ==
    IF VintageRaises(vintage) THEN NoneDict
    ELSE
      LET base_rating ==
              850 + (IF IsOlderThan(vintage, 2015) THEN 30 ELSE 0)
                  + (IF Truthy(winery)
                        /\ \E premium \in SpectatorPremium : Contains(Lower(winery), premium)
                     THEN 50 ELSE 0)
      IN  [rating |-> MinOf(base_rating + 10 * jitter, 1000),
           max_rating |-> 1000,
           source |-> Lit("Wine Spectator"),
           review_count |-> 1,
           description |-> Lit("Professional review for ") \o wine_name,
           url |-> SearchUrl("https://winespectator.com/search/", wine_name)]

(***************************************************************************)
(* The mock price sources.                                                 *)
(***************************************************************************)
\* markup in hundredths
sources ==
    << [name |-> <<"W", "i", "n", "e", ".", "c", "o", "m">>, markup |-> 100],
       [name |-> <<"T", "o", "t", "a", "l", " ", "W", "i", "n", "e">>, markup |-> 85],
       [name |-> <<"V", "i", "v", "i", "n", "o", " ", "M", "a", "r", "k", "e", "t", "p", "l", "a", "c", "e">>, markup |-> 95],
       [name |-> <<"W", "i", "n", "e", "-", "S", "e", "a", "r", "c", "h", "e", "r">>, markup |-> 110] >>

\* base_price of search_wine_prices, in cents
SearchBasePrice(vintage, region) ==
    LET by_region ==
            IF Truthy(region)
               /\ \E premium \in PremiumPriceRegions : Contains(Lower(region), premium)
            THEN 2500 * 3
            ELSE IF Truthy(region)
                    /\ \E mid \in MidPriceRegions : Contains(Lower(region), mid)
            THEN (2500 * 3) \div 2
            ELSE 2500
    IN  IF IsOlderThan(vintage, CurrentYear - 10)
        THEN (by_region * 3) \div 2 ELSE by_region

\* the quotes one source can produce: the price under each sample of
\* random.uniform(0.9, 1.2), with either availability
QuotesOf(source, wine_name, base_price) ==
    { [price |-> p,
       currency |-> Lit("USD"),
       source |-> source.name,
       availability |-> a,
       url |-> Lit("https://") \o Replace(Lower(source.name), " ", <<>>)
                 \o Lit(".com/search/") \o Replace(wine_name, " ", <<"-">>)] :
      p \in UNION {RoundDiv(base_price * source.markup * j, 100000) :
                     j \in UniformBand(900, 1200)},
      a \in {Lit("In Stock"), Lit("Limited")} }

\* search_wine_prices returning its quotes in source order, unsorted
SortByPrice_SourceOrder(prices) == prices

\* insert q after the elements whose price is <= its own (a stable sort)
RECURSIVE InsertByPrice(_, _)
InsertByPrice(sorted, q) ==
    IF sorted = <<>> THEN <<q>>
    ELSE IF Head(sorted).price <= q.price
         THEN <<Head(sorted)>> \o InsertByPrice(Tail(sorted), q)
         ELSE <<q>> \o sorted

\* sorted(prices, key=lambda x: x["price"])
RECURSIVE SortByPrice(_)
SortByPrice(prices) ==
    IF prices = <<>> THEN <<>>
    ELSE InsertByPrice(SortByPrice(SubSeq(prices, 1, Len(prices) - 1)),
                       prices[Len(prices)])

\* min(prices, key=lambda x: x["price"]): the first element of least price
RECURSIVE MinByPrice(_)
MinByPrice(prices) ==
    IF Len(prices) = 1 THEN prices[1]
    ELSE LET rest == MinByPrice(Tail(prices))
         IN  IF Head(prices).price <= rest.price THEN Head(prices) ELSE rest

\* the reduction taking the first source that answered, not the best one
MaxByRating_FirstAnswer(ratings) == ratings[1]

\* max(ratings, key=lambda x: x.get("rating", 0)): the first element of
\* greatest rating
RECURSIVE MaxByRating(_)
MaxByRating(ratings) ==
    IF Len(ratings) = 1 THEN ratings[1]
    ELSE LET rest == MaxByRating(Tail(ratings))
         IN  IF DictGet(Head(ratings), "rating", 0) >= DictGet(rest, "rating", 0)
             THEN Head(ratings) ELSE rest

RECURSIVE SumPrices(_)
SumPrices(prices) ==
    IF prices = <<>> THEN 0 ELSE Head(prices).price + SumPrices(Tail(prices))

(***************************************************************************)
(* The fallback estimators. Each yields the set of its outcomes: a dict    *)
(* per random draw, or the exception it raises.                            *)
(***************************************************************************)
Returned(v) == [raised |-> FALSE, v |-> v, error |-> <<>>]
Raised(error) == [raised |-> TRUE, v |-> NoneDict, error |-> Lit(error)]

NoLower == "'NoneType' object has no attribute 'lower'"

estimate_wine_rating(wine_data) ==
    LET region == DictGet(wine_data, "region", <<>>)
        grape == DictGet(wine_data, "grape_variety", <<>>)
    IN  IF region = NoneStr \/ grape = NoneStr THEN {Raised(NoLower)}
        ELSE
          LET base_rating ==
                  85 + (IF \E pr \in prestigious_regions : Contains(Lower(region), pr)
                        THEN 5 ELSE 0)
                     + (IF \E pg \in premium_grapes : Contains(Lower(grape), pg)
                        THEN 3 ELSE 0)
          IN  { Returned([rating |-> 10 * MinOf(MaxOf(base_rating + r, 75), 95),
                          max_rating |-> 1000,
                          source |-> Lit("Expert Estimate"),
                          confidence |-> Lit("estimated")]) : r \in -5..10 }

estimate_wine_price(wine_data) ==
    LET region == DictGet(wine_data, "region", <<>>)
        vintage == DictGet(wine_data, "vintage", NoneStr)
    IN  IF region = NoneStr THEN {Raised(NoLower)}
        ELSE IF Truthy(vintage) /\ IsDigit(vintage) /\ ~IntOf(vintage).ok
        THEN {Raised("invalid literal for int() with base 10")}
        ELSE
          LET by_region ==
                  IF \E expensive \in PremiumPriceRegions : Contains(Lower(region), expensive)
                  THEN (2500 * 5) \div 2
                  ELSE IF \E mid \in MidPriceRegions : Contains(Lower(region), mid)
                  THEN (2500 * 3) \div 2
                  ELSE 2500
              base_price ==
                  IF Truthy(vintage) /\ IsDigit(vintage)
                     /\ IntOf(vintage).n < CurrentYear - 5
                  THEN (by_region * 13) \div 10 ELSE by_region
          IN  { Returned([price |-> p,
                          currency |-> Lit("USD"),
                          source |-> Lit("Market Estimate"),
                          confidence |-> Lit("estimated")]) :
                p \in UNION {RoundDiv(base_price * j, 1000) : j \in UniformBand(800, 1400)} }

(***************************************************************************)
(* HTTP responses.                                                         *)
(***************************************************************************)
\* JSONResponse(content=body)
Ok(body) == [status |-> 200, body |-> body]
\* raise HTTPException(status_code=status, detail=detail)
HttpError(status, detail) == [status |-> status, body |-> [detail |-> detail]]
\* an exception that leaves the handler: the framework answers 500
Unhandled == HttpError(500, Lit("Internal Server Error"))

NoResponse == [status |-> 0, body |-> [detail |-> <<>>]]

(***************************************************************************)
(* get_wine_rating, from the return of asyncio.gather on.                  *)
(* results holds, in task order, what each lookup returned.                *)
(***************************************************************************)
FallbackRating(request, error) ==
    { IF again.raised THEN Unhandled
      ELSE Ok([success |-> TRUE,
               data |-> again.v,
               message |-> Lit("Fallback rating provided due to error: ") \o error]) :
      again \in estimate_wine_rating(request) }

get_wine_rating(request, results) ==
    LET ratings == SelectSeq(results, LAMBDA r : r # NoneDict)
    IN  IF ratings # <<>>
        THEN { Ok([success |-> TRUE,
                   data |-> MaxByRating(ratings),
                   all_ratings |-> ratings,
                   message |-> Lit("Wine rating retrieved successfully")]) }
        ELSE UNION {
               IF estimated.raised THEN FallbackRating(request, estimated.error)
               ELSE { Ok([success |-> TRUE,
                          data |-> estimated.v,
                          message |-> Lit("Wine rating estimated (no online data found)")]) } :
               estimated \in estimate_wine_rating(request) }

(***************************************************************************)
(* get_wine_price, from the return of search_wine_prices on.               *)
(***************************************************************************)
FallbackPrice(request, error) ==
    { IF again.raised THEN Unhandled
      ELSE Ok([success |-> TRUE,
               data |-> again.v,
               message |-> Lit("Fallback price provided due to error: ") \o error]) :
      again \in estimate_wine_price(request) }

get_wine_price(request, prices) ==
    IF prices # <<>>
    THEN { Ok([success |-> TRUE,
               data |-> [average_price |-> avg_price,
                         lowest_price |-> MinByPrice(prices),
                         all_prices |-> prices,
                         currency |-> Lit("USD"),
                         updated_at |-> Lit("<now>")],
               message |-> Lit("Wine prices retrieved successfully")]) :
           avg_price \in RoundDiv(SumPrices(prices), Len(prices)) }
    ELSE UNION {
           IF estimated.raised THEN FallbackPrice(request, estimated.error)
           ELSE { Ok([success |-> TRUE,
                      data |-> estimated.v,
                      message |-> Lit("Wine price estimated (no online data found)")]) } :
           estimated \in estimate_wine_price(request) }

(***************************************************************************)
(* scan_wine_label                                                         *)
(***************************************************************************)
\* the content-type check and the handler's except clause around it
RejectUpload(content_type) ==
    ~Truthy(content_type) \/ ~StartsWith(content_type, ImagePrefix)

\* except Exception as e: raise HTTPException(status_code=500, ...)
ScanFailure(error) == HttpError(500, Lit("Error processing image: ") \o Lit(error))

ScanSuccess(wine_info_text) ==
    Ok([success |-> TRUE,
        data |-> extract_json_from_response(wine_info_text),
        message |-> Lit("Wine label scanned successfully")])

(***************************************************************************)
(* save_wine and get_wines, and the store's wines table.                   *)
(* A dict is the sequence of its items, in insertion order; None is JNone. *)
(***************************************************************************)
JNone == [t |-> "none", n |-> 0, s |-> <<>>, kids |-> <<>>]

\* the bound of the model on the rows the table takes
MaxRows == 2

\* the fields of WineData, in the order of the class
WineFields ==
    << "name", "winery", "vintage", "region", "country", "grape_variety",
       "alcohol_content", "wine_type", "description", "confidence" >>

\* the str "null"
NullWord == <<"n", "u", "l", "l">>

\* a record with every field given (confidence 0.9, in tenths)
FullRecord ==
    [ name |-> JStr(<<"O", "p", "u", "s">>), winery |-> JStr(<<"A", "c", "m", "e">>), vintage |-> JStr(<<"2", "0", "1", "8">>),
      region |-> JStr(<<"N", "a", "p", "a">>), country |-> JStr(<<"U", "S", "A">>), grape_variety |-> JStr(<<"M", "e", "r", "l", "o", "t">>),
      alcohol_content |-> JStr(<<"1", "4", "%">>), wine_type |-> JStr(<<"r", "e", "d">>),
      description |-> JStr(<<"d", "r", "y">>), confidence |-> JFloat(9) ]

StrFields == {"name", "winery", "vintage", "region", "country", "grape_variety",
              "alcohol_content", "wine_type", "description"}

\* the fields a submitted record leaves null, and those it gives as "null"
NullChoices ==
    { {}, {"confidence"}, {"vintage", "region", "country"},
      StrFields \cup {"confidence"} }
QuotedChoices == { {}, {"name"}, {"vintage", "wine_type"} }

\* wine_data.dict() of the submitted records of the model
WineRecords ==
    { [i \in 1..Len(WineFields) |->
         Item(Lit(WineFields[i]),
              IF WineFields[i] \in nulls THEN JNone
              ELSE IF WineFields[i] \in quoted THEN JStr(NullWord)
              ELSE FullRecord[WineFields[i]])] :
      nulls \in NullChoices, quoted \in QuotedChoices }

\* clean_data keeping the "null" strings
clean_data_KeepNullWord(wine_dict) ==
    SelectSeq(wine_dict, LAMBDA item : item.v # JNone)

\* the loop over wine_dict.items(): clean_data[key] = value for every value
\* that is neither None nor "null"
RECURSIVE CleanFrom(_, _, _)
CleanFrom(wine_dict, i, acc) ==
    IF i > Len(wine_dict) THEN acc
    ELSE CleanFrom(wine_dict, i + 1,
                   IF wine_dict[i].v # JNone /\ wine_dict[i].v # JStr(NullWord)
                   THEN DictSet(acc, wine_dict[i].k, wine_dict[i].v)
                   ELSE acc)

clean_data(wine_dict) == CleanFrom(wine_dict, 1, <<>>)

\* str(n) of a row count
DigitChar(d) ==
    CASE d = 0 -> "0" [] d = 1 -> "1" [] d = 2 -> "2" [] d = 3 -> "3"
      [] d = 4 -> "4" [] d = 5 -> "5" [] d = 6 -> "6" [] d = 7 -> "7"
      [] d = 8 -> "8" [] d = 9 -> "9"

RECURSIVE StrOfInt(_)
StrOfInt(n) ==
    IF n < 10 THEN <<DigitChar(n)>>
    ELSE Append(StrOfInt(n \div 10), DigitChar(n % 10))

\* save_wine after a successful insert: response.data is the inserted row
SaveSuccess(row) ==
    Ok([success |-> TRUE, data |-> <<row>>, message |-> Lit("Wine saved successfully")])

\* save_wine's except clause
SaveFailure(error) ==
    [status |-> 500,
     body |-> [success |-> FALSE, data |-> <<>>,
               message |-> Lit("Error saving wine: ") \o Lit(error)]]

\* get_wines after a successful select
GetSuccess(rows) ==
    Ok([success |-> TRUE, data |-> rows,
        message |-> Lit("Retrieved ") \o StrOfInt(Len(rows)) \o Lit(" wines")])

\* get_wines's early return when an environment variable is not set
GetNotConfigured(variable) ==
    Ok([success |-> FALSE, data |-> <<>>,
        message |-> Lit(variable) \o Lit(" environment variable not found")])

\* get_wines's except clause
GetFailure(error) ==
    Ok([success |-> FALSE, data |-> <<>>,
        message |-> Lit("Database error: ") \o Lit(error)])

(***************************************************************************)
(* The server: one request at a time, from arrival to response.            *)
(***************************************************************************)
VARIABLES
    pc,        \* where the handler of the current request stands
    request,   \* the current request
    tasks,     \* get_wine_rating: the two lookup coroutines
    prices,    \* get_wine_price: the quotes search_wine_prices has built
    reply,     \* scan_wine_label: the call to the vision model
    response,  \* the response of the handler
    table      \* the rows of the store's wines table

vars == <<pc, request, tasks, prices, reply, response, table>>

NoRequest == [endpoint |-> "none"]
Pending == [state |-> "pending", result |-> NoneDict]
\* order: the names of the tasks that have finished, in the order in which
\* the event loop saw them finish
NoTasks == [vivino |-> Pending, spectator |-> Pending, order |-> <<>>]
NoReply == [called |-> FALSE, raised |-> FALSE, text |-> <<>>]

Init ==
    /\ pc = "idle"
    /\ request = NoRequest
    /\ tasks = NoTasks
    /\ prices = <<>>
    /\ reply = NoReply
    /\ response = NoResponse
    /\ table = <<>>

\* POST /api/v1/scan-wine-label arrives; the handler runs to await file.read()
ReceiveScan ==
    /\ pc = "idle"
    /\ \E content_type \in ContentTypes :
         /\ request' = [endpoint |-> "scan", content_type |-> content_type]
         /\ IF RejectUpload(content_type)
            THEN /\ response' = ScanFailure("400: File must be an image")
                 /\ pc' = "done"
            ELSE /\ response' = response
                 /\ pc' = "scan_read"
    /\ UNCHANGED <<tasks, prices, reply, table>>

\* the vision model raises; the handler's except clause answers
ScanModelFails ==
    /\ pc = "scan_read"
    /\ reply' = [called |-> TRUE, raised |-> TRUE, text |-> <<>>]
    /\ response' = ScanFailure("model call failed")
    /\ pc' = "done"
    /\ UNCHANGED <<request, tasks, prices, table>>

\* the vision model replies; the handler normalizes the reply and answers
ScanModelReplies ==
    /\ pc = "scan_read"
    /\ \E text \in Texts :
         /\ reply' = [called |-> TRUE, raised |-> FALSE, text |-> text]
         /\ response' = ScanSuccess(text)
    /\ pc' = "done"
    /\ UNCHANGED <<request, tasks, prices, table>>

\* POST /api/v1/wine-rating arrives; the handler builds the two coroutines
\* and awaits asyncio.gather
ReceiveRating ==
    /\ pc = "idle"
    /\ \E body \in Requests : request' = [endpoint |-> "rating", body |-> body]
    /\ tasks' = NoTasks
    /\ pc' = "gather"
    /\ UNCHANGED <<prices, reply, response, table>>

\* search_vivino_rating runs to await asyncio.sleep(0.5)
VivinoStart ==
    /\ pc = "gather"
    /\ tasks.vivino.state = "pending"
    /\ tasks' = [tasks EXCEPT !.vivino.state = "sleeping"]
    /\ UNCHANGED <<pc, request, prices, reply, response, table>>

\* search_vivino_rating wakes and returns
VivinoFinish ==
    /\ pc = "gather"
    /\ tasks.vivino.state = "sleeping"
    /\ \E jitter \in VivinoJitter, reviews \in ReviewCounts :
         tasks' = [tasks EXCEPT !.vivino =
                     [state |-> "done",
                      result |-> search_vivino_rating(request.body.wine_name,
                                     request.body.vintage, request.body.winery,
                                     jitter, reviews)],
                                !.order = Append(@, "vivino")]
    /\ UNCHANGED <<pc, request, prices, reply, response, table>>

\* search_wine_spectator_rating runs to await asyncio.sleep(0.7)
SpectatorStart ==
    /\ pc = "gather"
    /\ tasks.spectator.state = "pending"
    /\ tasks' = [tasks EXCEPT !.spectator.state = "sleeping"]
    /\ UNCHANGED <<pc, request, prices, reply, response, table>>

\* search_wine_spectator_rating wakes and returns
SpectatorFinish ==
    /\ pc = "gather"
    /\ tasks.spectator.state = "sleeping"
    /\ \E jitter \in SpectatorJitter :
         tasks' = [tasks EXCEPT !.spectator =
                     [state |-> "done",
                      result |-> search_wine_spectator_rating(request.body.wine_name,
                                     request.body.vintage, request.body.winery, jitter)],
                                !.order = Append(@, "spectator")]
    /\ UNCHANGED <<pc, request, prices, reply, response, table>>

\* a wait that ends as soon as one task is done
gather_ready_FirstCompleted(coros) ==
    coros.vivino.state = "done" \/ coros.spectator.state = "done"

\* await asyncio.gather(*tasks, ...) resumes the handler once every task is
\* done
gather_ready(coros) ==
    coros.vivino.state = "done" /\ coros.spectator.state = "done"

\* results collected in the order in which the tasks finished
gather_CompletionOrder(coros) ==
    [i \in 1..Len(coros.order) |-> coros[coros.order[i]].result]

\* asyncio.gather returns the results in the order of its arguments
gather(coros) == <<coros.vivino.result, coros.spectator.result>>

\* asyncio.gather returns once both tasks are done; the handler reduces
RatingReduce ==
    /\ pc = "gather"
    /\ gather_ready(tasks)
    /\ response' \in get_wine_rating(request.body, gather(tasks))
    /\ pc' = "done"
    /\ UNCHANGED <<request, tasks, prices, reply, table>>

\* POST /api/v1/wine-price arrives; search_wine_prices either raises at
\* int(vintage) and returns [] at once, or builds its four quotes and runs
\* to await asyncio.sleep(1.0)
ReceivePrice ==
    /\ pc = "idle"
    /\ \E body \in Requests :
         /\ request' = [endpoint |-> "price", body |-> body]
         /\ IF VintageRaises(body.vintage)
            THEN /\ prices' = <<>>
                 /\ response' \in get_wine_price(body, <<>>)
                 /\ pc' = "done"
            ELSE /\ \E q1 \in QuotesOf(sources[1], body.wine_name,
                                       SearchBasePrice(body.vintage, body.region)),
                       q2 \in QuotesOf(sources[2], body.wine_name,
                                       SearchBasePrice(body.vintage, body.region)),
                       q3 \in QuotesOf(sources[3], body.wine_name,
                                       SearchBasePrice(body.vintage, body.region)),
                       q4 \in QuotesOf(sources[4], body.wine_name,
                                       SearchBasePrice(body.vintage, body.region)) :
                      prices' = <<q1, q2, q3, q4>>
                 /\ response' = response
                 /\ pc' = "price_sleep"
    /\ UNCHANGED <<tasks, reply, table>>

\* search_wine_prices wakes and returns its quotes sorted; the handler reduces
PriceReduce ==
    /\ pc = "price_sleep"
    /\ response' \in get_wine_price(request.body, SortByPrice(prices))
    /\ pc' = "done"
    /\ UNCHANGED <<request, tasks, prices, reply, table>>

\* the response is sent; the server waits for the next request
Deliver ==
    /\ pc = "done"
    /\ pc' = "idle"
    /\ request' = NoRequest
    /\ tasks' = NoTasks
    /\ prices' = <<>>
    /\ reply' = NoReply
    /\ response' = NoResponse
    /\ table' = table

\* POST /api/v1/wines: the handler cleans the record and the store inserts
\* the row
SaveWine ==
    /\ pc = "idle"
    /\ Len(table) < MaxRows
    /\ \E wine_dict \in WineRecords :
         /\ request' = [endpoint |-> "save", wine_dict |-> wine_dict]
         /\ table' = Append(table, clean_data(wine_dict))
         /\ response' = SaveSuccess(clean_data(wine_dict))
    /\ pc' = "done"
    /\ UNCHANGED <<tasks, prices, reply>>

\* POST /api/v1/wines: the insert raises
SaveWineFails ==
    /\ pc = "idle"
    /\ \E wine_dict \in WineRecords :
         request' = [endpoint |-> "save", wine_dict |-> wine_dict]
    /\ response' = SaveFailure("store call failed")
    /\ pc' = "done"
    /\ UNCHANGED <<tasks, prices, reply, table>>

\* GET /api/v1/wines: the store returns every row
GetWines ==
    /\ pc = "idle"
    /\ request' = [endpoint |-> "wines"]
    /\ response' = GetSuccess(table)
    /\ pc' = "done"
    /\ UNCHANGED <<tasks, prices, reply, table>>

\* GET /api/v1/wines: the select raises
GetWinesFails ==
    /\ pc = "idle"
    /\ request' = [endpoint |-> "wines"]
    /\ response' \in { GetNotConfigured("SUPABASE_URL"),
                        GetNotConfigured("SUPABASE_SERVICE_KEY"),
                        GetFailure("store call failed") }
    /\ pc' = "done"
    /\ UNCHANGED <<tasks, prices, reply, table>>

Next ==
    \/ ReceiveScan
    \/ ScanModelFails
    \/ ScanModelReplies
    \/ ReceiveRating
    \/ VivinoStart
    \/ VivinoFinish
    \/ SpectatorStart
    \/ SpectatorFinish
    \/ RatingReduce
    \/ ReceivePrice
    \/ PriceReduce
    \/ Deliver

Spec == Init /\ [][Next]_vars

\* The endpoints of the store share no state with the other endpoints: the
\* second specification follows them alone, with the table they fill.
StoreNext ==
    \/ SaveWine
    \/ SaveWineFails
    \/ GetWines
    \/ GetWinesFails
    \/ Deliver

StoreSpec == Init /\ [][StoreNext]_vars

(***************************************************************************)
(* Properties.                                                             *)
(***************************************************************************)
\* the handler of endpoint ep has finished and its response stands
Finished(ep) == pc = "done" /\ request.endpoint = ep

\* the response is the envelope {success: true, data: ...} with status 200
Succeeded ==
    /\ response.status = 200
    /\ "success" \in DOMAIN response.body
    /\ response.body.success = TRUE
    /\ "data" \in DOMAIN response.body

\* the vision model replied with reply.text and the handler normalized it
Normalized == Finished("scan") /\ reply.called /\ ~reply.raised

\* C1: every rating request ends with a response of status 200 whose
\* success is true and whose data carries a rating; no error leaves the
\* handler.
C1_RatingAlwaysAnswers ==
    Finished("rating") =>
        /\ Succeeded
        /\ "rating" \in DOMAIN response.body.data

\* C2: every price request ends with a response of status 200 whose success
\* is true; when search_wine_prices yielded no quotes, its data is the
\* estimate whose source is "Market Estimate".
C2_PriceAlwaysAnswers ==
    Finished("price") =>
        /\ Succeeded
        /\ (prices = <<>> =>
              /\ "source" \in DOMAIN response.body.data
              /\ response.body.data.source = Lit("Market Estimate"))

\* C3: when the reply is not valid JSON, the candidate of the backtick
\* pattern fails to parse, and the span from the first opening brace to the
\* last closing brace is a valid JSON object, the normalizer returns that
\* object.
C3_BraceSpanAfterFailedFence ==
    (/\ Normalized
     /\ ~JsonLoads(reply.text).ok
     /\ FenceSearch(reply.text).found
     /\ ~JsonLoads(FenceSearch(reply.text).group).ok
     /\ BraceSearch(reply.text).found
     /\ JsonLoads(BraceSearch(reply.text).group).ok
     /\ JsonLoads(BraceSearch(reply.text).group).v.t = "obj")
    => response.body.data = JsonLoads(BraceSearch(reply.text).group).v

\* C4: an upload whose content type is missing or does not start with
\* "image/" is answered with a client error, a status in 400..499.
C4_BadUploadIsClientError ==
    (/\ Finished("scan")
     /\ (request.content_type = NoneStr
           \/ ~StartsWith(request.content_type, ImagePrefix)))
    => response.status \in 400..499

\* C5: when at least one lookup returned a result, the response data is one
\* of the returned results, its rating is >= the rating of every returned
\* result, and all_ratings holds exactly the returned results, in task
\* order, and nothing else.
C5_BestOfReturnedRatings ==
    LET v == tasks.vivino.result
        s == tasks.spectator.result
        returned == (IF v # NoneDict THEN <<v>> ELSE <<>>)
                      \o (IF s # NoneDict THEN <<s>> ELSE <<>>)
    IN  (Finished("rating") /\ returned # <<>>) =>
            /\ Succeeded
            /\ "all_ratings" \in DOMAIN response.body
            /\ response.body.all_ratings = returned
            /\ \E i \in 1..Len(returned) : response.body.data = returned[i]
            /\ \A i \in 1..Len(returned) :
                 response.body.data.rating >= returned[i].rating

\* a rating request was answered from both sources, and the second one won
C5_Witness ==
    /\ Finished("rating")
    /\ tasks.vivino.result # NoneDict
    /\ tasks.spectator.result # NoneDict
    /\ response.status = 200
    /\ response.body.data = tasks.spectator.result
    /\ Len(response.body.all_ratings) = 2

\* C6: when both lookups returned nothing, the response is the estimate:
\* its source is "Expert Estimate", its rating is a whole number of points
\* in 75..95 (750..950 tenths), and there is no all_ratings.
C6_EstimateWhenNoSource ==
    (/\ Finished("rating")
     /\ tasks.vivino.result = NoneDict
     /\ tasks.spectator.result = NoneDict)
    => /\ Succeeded
       /\ "all_ratings" \notin DOMAIN response.body
       /\ "source" \in DOMAIN response.body.data
       /\ response.body.data.source = Lit("Expert Estimate")
       /\ response.body.data.rating \in 750..950
       /\ response.body.data.rating % 10 = 0

\* C7: when search_wine_prices returned quotes, all_prices holds them all in
\* ascending order of price, lowest_price is its first element and no quote
\* is cheaper, average_price is the mean of the prices rounded to the cent,
\* and it lies between the lowest and the highest price.
C7_PriceReduction ==
    (Finished("price") /\ prices # <<>>) =>
        /\ Succeeded
        /\ "all_prices" \in DOMAIN response.body.data
        /\ LET data == response.body.data
               all == data.all_prices
               n == Len(all)
           IN  /\ n = Len(prices)
               /\ \A i \in 1..n : \E j \in 1..n : all[j] = prices[i]
               /\ \A i \in 1..(n - 1) : all[i].price <= all[i + 1].price
               /\ data.lowest_price = all[1]
               /\ \A i \in 1..n : data.lowest_price.price <= prices[i].price
               /\ 2 * (n * data.average_price - SumPrices(prices)) <= n
               /\ 2 * (SumPrices(prices) - n * data.average_price) <= n
               /\ data.lowest_price.price <= data.average_price
               /\ data.average_price <= all[n].price

\* a price request was answered from quotes that the sources produced out
\* of order, and whose mean is not a whole number of cents
C7_Witness ==
    /\ Finished("price")
    /\ prices # <<>>
    /\ response.status = 200
    /\ prices[1].price > prices[2].price
    /\ SumPrices(prices) % Len(prices) # 0

\* C8: whatever the reply, the normalizer returns a mapping.
C8_AlwaysMapping ==
    Normalized => response.body.data.t = "obj"

\* the index after the opening fence at i and its optional json tag
FenceBody(text, i) ==
    IF i + 6 <= Len(text) /\ SubSeq(text, i + 3, i + 6) = JsonTag
    THEN i + 7 ELSE i + 3

IsFenceAt(text, i) == i + 2 <= Len(text) /\ SubSeq(text, i, i + 2) = Fence

\* C9: when the reply holds a fenced block (three backticks, an optional
\* json tag, a valid JSON object, three backticks) with any prose around
\* it, the normalizer returns that object.
C9_FencedObjectExtracted ==
    Normalized =>
        \A i \in 1..Len(reply.text), j \in 1..Len(reply.text) :
            (/\ IsFenceAt(reply.text, i)
             /\ IsFenceAt(reply.text, j)
             /\ FenceBody(reply.text, i) <= j
             /\ JsonLoads(SubSeq(reply.text, FenceBody(reply.text, i), j - 1)).ok
             /\ JsonLoads(SubSeq(reply.text, FenceBody(reply.text, i), j - 1)).v.t = "obj")
            => response.body.data
                 = JsonLoads(SubSeq(reply.text, FenceBody(reply.text, i), j - 1)).v

\* no opening brace of the text has a closing brace after it
NoBraceSpan(text) ==
    ~\E i \in 1..Len(text), j \in 1..Len(text) :
        i < j /\ text[i] = "{" /\ text[j] = "}"

\* C10: when the reply is not valid JSON and holds no brace span (hence no
\* backtick-delimited object either), the normalizer returns the default
\* record, whose description is the reply itself.
C10_DefaultRecord ==
    (Normalized /\ ~JsonLoads(reply.text).ok /\ NoBraceSpan(reply.text)) =>
        response.body.data =
            JObj(<< Item(<<"name">>, JStr(<<"Unknown Wine">>)),
                    Item(<<"winery">>, JStr(<<"Unknown Winery">>)),
                    Item(<<"vintage">>, JStr(<<"Unknown">>)),
                    Item(<<"region">>, JStr(<<"Unknown">>)),
                    Item(<<"country">>, JStr(<<"Unknown">>)),
                    Item(<<"grape_variety">>, JStr(<<"Unknown">>)),
                    Item(<<"alcohol_content">>, JStr(<<"Unknown">>)),
                    Item(<<"wine_type">>, JStr(<<"red">>)),
                    Item(<<"description">>, JStr(reply.text)),
                    Item(<<"confidence">>, JFloat(5)) >>)

\* the reply was prose with backticks and a stray brace, and was normalized
C10_Witness ==
    /\ Normalized
    /\ ~JsonLoads(reply.text).ok
    /\ NoBraceSpan(reply.text)
    /\ \E i \in 1..Len(reply.text) : reply.text[i] = Tick
    /\ \E i \in 1..Len(reply.text) : reply.text[i] = "{"
    /\ response.status = 200

\* the row of the current save request, as the store holds it
SavedRow == table[Len(table)]

\* save_wine has inserted the row of the current request
Saved == Finished("save") /\ response.status = 200

\* C11 as stated: the inserted row holds every field whose submitted value
\* is not null, with that value, and no field whose submitted value is null.
C11_OnlyNullsStripped ==
    Saved =>
        \A i \in 1..Len(request.wine_dict) :
            IF request.wine_dict[i].v # JNone
            THEN \E j \in 1..Len(SavedRow) : SavedRow[j] = request.wine_dict[i]
            ELSE \A j \in 1..Len(SavedRow) : SavedRow[j].k # request.wine_dict[i].k

\* C11 as amended: the inserted row holds exactly the fields whose submitted
\* value is neither null nor the string "null", each with its value
\* unchanged; a record with no such field is inserted whole, the response
\* carries the inserted row, and get_wines returns the rows of the table
\* unchanged.
C11_NullsAndNullWordsStripped ==
    /\ Saved =>
        /\ \A i \in 1..Len(request.wine_dict) :
             IF request.wine_dict[i].v # JNone
                /\ request.wine_dict[i].v # JStr(NullWord)
             THEN \E j \in 1..Len(SavedRow) : SavedRow[j] = request.wine_dict[i]
             ELSE \A j \in 1..Len(SavedRow) : SavedRow[j].k # request.wine_dict[i].k
        /\ \A j \in 1..Len(SavedRow) :
             \E i \in 1..Len(request.wine_dict) : SavedRow[j] = request.wine_dict[i]
        /\ ((\A i \in 1..Len(request.wine_dict) :
               /\ request.wine_dict[i].v # JNone
               /\ request.wine_dict[i].v # JStr(NullWord))
            => SavedRow = request.wine_dict)
        /\ response.body.data = <<SavedRow>>
    /\ (Finished("wines") /\ response.body.success) => response.body.data = table

\* a record with a null field, a "null" field and a given field was saved
C11_Witness ==
    /\ Saved
    /\ \E i \in 1..Len(request.wine_dict) : request.wine_dict[i].v = JNone
    /\ \E i \in 1..Len(request.wine_dict) : request.wine_dict[i].v = JStr(NullWord)
    /\ Len(SavedRow) > 0
    /\ Len(SavedRow) < Len(request.wine_dict)

\* C12: the step that leaves the await of asyncio.gather and builds the
\* rating response (best rating or estimate fallback) is taken only from a
\* state in which each of the two lookups has finished, whatever the order
\* in which they ran.
C12_ReduceAfterBothLookups ==
    [][(pc = "gather" /\ pc' # "gather") =>
          /\ tasks.vivino.state = "done"
          /\ tasks.spectator.state = "done"
          /\ Len(tasks.order) = 2
          /\ tasks' = tasks]_vars

\* a rating request was answered by the estimate after both lookups had
\* failed, the second one of the list having finished first
C12_Witness ==
    /\ Finished("rating")
    /\ tasks.order = <<"spectator", "vivino">>
    /\ tasks.vivino.result = NoneDict
    /\ tasks.spectator.result = NoneDict
    /\ response.status = 200
    /\ "all_ratings" \notin DOMAIN response.body

\* two results of equal rating, one per source
EqualRatedVivino ==
    search_vivino_rating(<<"O", "p", "u", "s">>, NoneStr, NoneStr, 0, 50)

EqualRatedSpectator ==
    [search_wine_spectator_rating(<<"O", "p", "u", "s">>, NoneStr, NoneStr, 0)
        EXCEPT !.rating = EqualRatedVivino.rating]

\* both tasks done with the given results, finished in the given order
DoneTasks(v, s, order) ==
    [vivino |-> [state |-> "done", result |-> v],
     spectator |-> [state |-> "done", result |-> s],
     order |-> order]

\* C13: the answer to a rating request is determined by the outcomes of the
\* two lookups alone: whatever the order in which they finished, it is what
\* the reduction yields on <<Vivino outcome, Wine Spectator outcome>>, so
\* all_ratings lists the returned results in that order and the best rating
\* is the first of greatest rating in that order; the same holds of two
\* results of equal rating, where the Vivino one is selected in both orders.
C13_CompletionOrderIrrelevant ==
    Finished("rating") =>
        LET outcomes == <<tasks.vivino.result, tasks.spectator.result>>
            returned == SelectSeq(outcomes, LAMBDA r : r # NoneDict)
        IN  /\ tasks.order \in { <<"vivino", "spectator">>, <<"spectator", "vivino">> }
            /\ response \in get_wine_rating(request.body, outcomes)
            /\ returned # <<>> =>
                 /\ response.body.all_ratings = returned
                 /\ \E i \in 1..Len(returned) :
                      /\ response.body.data = returned[i]
                      /\ \A j \in 1..Len(returned) :
                           /\ returned[i].rating >= returned[j].rating
                           /\ (j < i => returned[i].rating > returned[j].rating)
            /\ \A v \in {NoneDict, EqualRatedVivino}, s \in {NoneDict, EqualRatedSpectator} :
                 /\ gather(DoneTasks(v, s, <<"vivino", "spectator">>)) = <<v, s>>
                 /\ gather(DoneTasks(v, s, <<"spectator", "vivino">>)) = <<v, s>>
            /\ get_wine_rating(request.body,
                   gather(DoneTasks(EqualRatedVivino, EqualRatedSpectator,
                                    <<"spectator", "vivino">>)))
                 = { Ok([success |-> TRUE,
                         data |-> EqualRatedVivino,
                         all_ratings |-> <<EqualRatedVivino, EqualRatedSpectator>>,
                         message |-> Lit("Wine rating retrieved successfully")]) }

\* a rating request was answered from both sources although the second
\* lookup of the list finished first
C13_Witness ==
    /\ Finished("rating")
    /\ tasks.order = <<"spectator", "vivino">>
    /\ tasks.vivino.result # NoneDict
    /\ tasks.spectator.result # NoneDict
    /\ response.status = 200
    /\ response.body.all_ratings = <<tasks.vivino.result, tasks.spectator.result>>

====
